---- MODULE Spec2Model ----
(***************************************************************************)
(* PhenoAnalyzer.process_pipeline (src/PhenoAnalysis.py): the four-stage   *)
(* reshape / clean / summarise / normalise pipeline, as a state machine.   *)
(*                                                                         *)
(* Strings that the code inspects character by character (image names,    *)
(* the regular expression's literal) are sequences of one-character        *)
(* strings.  Column labels are plain strings.  Areas are integers (the     *)
(* GUI writes np.count_nonzero(mask)).  float64 statistics are carried in  *)
(* fixed point, in units of 1/Scale, with nan as a separate value.         *)
(***************************************************************************)
EXTENDS Integers, Sequences, FiniteSets, TLC

VARIABLES
    pc,               \* position inside process_pipeline
    result,           \* "none" while running, then "True", "False" or "raised"
    input_mask_file,  \* the Excel file named by input_mask_file
    range_max,        \* parameter range_max
    enable_iqr,       \* parameter enable_iqr
    log_callback,     \* self.log: "print" never raises, "raising" may raise
    output_dir,       \* "ok": every to_excel succeeds, "flaky": one may raise
    df_reshaped,      \* stage 1 table
    df_cleaned,       \* stage 2 table
    stats_df,         \* stage 3 table
    norm_df,          \* stage 4 table
    artifacts,        \* names of the files written so far, in order
    log_raised,       \* history: the callback has raised
    io_failed,        \* history: a read or a write has raised
    image_name,       \* matcher: the string searched
    candidate,        \* matcher: the candidate i tried (0: none yet)
    matched           \* matcher: whether re.search found the pattern

vars == <<pc, result, input_mask_file, range_max, enable_iqr, log_callback,
          output_dir, df_reshaped, df_cleaned, stats_df, norm_df, artifacts,
          log_raised, io_failed, image_name, candidate, matched>>

pipeline_vars == <<pc, result, input_mask_file, range_max, enable_iqr,
                   log_callback, output_dir, df_reshaped, df_cleaned,
                   stats_df, norm_df, artifacts, log_raised, io_failed>>

matcher_vars == <<image_name, candidate, matched>>

-----------------------------------------------------------------------------
(* Bounds *)

\* Rows of the input table.
MaxRows == 3
\* Rows of the input table in the runs with a raising callback, a flaky
\* output directory or a non-standard set of columns.
MaxFaultRows == 1
\* The pipeline's range_max.
RangeMax == 2
\* Length of the enumerated image names of the matcher runs.
MaxNameLen == 4
\* Largest candidate of the matcher runs.
MatchRangeMax == 101
\* Length of a PlotSeries in the runs that start at stage 3.
MaxSeries == 4

-----------------------------------------------------------------------------
(* Sequences *)

Range(s) == {s[k] : k \in 1..Len(s)}

RECURSIVE SeqsUpTo(_, _)
\* All sequences over S of length at most n.
SeqsUpTo(S, n) ==
    IF n = 0 THEN {<<>>}
    ELSE LET shorter == SeqsUpTo(S, n - 1)
         IN  shorter \cup {Append(s, x) : s \in {t \in shorter : Len(t) = n - 1}, x \in S}

RECURSIVE SumSeq(_)
SumSeq(s) == IF s = <<>> THEN 0 ELSE Head(s) + SumSeq(Tail(s))

RECURSIVE Insert(_, _)
Insert(x, s) ==
    IF s = <<>> THEN <<x>>
    ELSE IF x <= Head(s) THEN <<x>> \o s
    ELSE <<Head(s)>> \o Insert(x, Tail(s))

RECURSIVE SortValues(_)
\* The values of s in ascending order.
SortValues(s) == IF s = <<>> THEN <<>> ELSE Insert(Head(s), SortValues(Tail(s)))

-----------------------------------------------------------------------------
(* Identifier Matcher: re.search(rf'\b{i}-', image_name) *)

DigitChars == <<"0", "1", "2", "3", "4", "5", "6", "7", "8", "9">>

IsDigit(c) == c \in Range(DigitChars)

Letters == {"a", "b", "c", "d", "e", "f", "g", "h", "i", "j", "k", "l", "m",
            "n", "o", "p", "q", "r", "s", "t", "u", "v", "w", "x", "y", "z"}

\* The regular expression class \w.
IsWordChar(c) == IsDigit(c) \/ c \in Letters \/ c = "_"

RECURSIVE Digits(_)
\* f'{i}' for i >= 0: the decimal digits of i.
Digits(i) ==
    IF i < 10 THEN <<DigitChars[i + 1]>>
    ELSE Append(Digits(i \div 10), DigitChars[(i % 10) + 1])

\* The literal of the pattern rf'\b{i}-' after the \b.
PatternLiteral(i) == Append(Digits(i), "-")

\* s has the literal lit at position p (1-based).
LiteralAt(s, p, lit) ==
    /\ p + Len(lit) - 1 <= Len(s)
    /\ \A k \in 1..Len(lit) : s[p + k - 1] = lit[k]

\* \b between s[p-1] and s[p]: exactly one side is a word character
\* (outside the string counts as a non-word character).
WordBoundary(s, p) ==
    LET before == p > 1 /\ IsWordChar(s[p - 1])
        after  == p <= Len(s) /\ IsWordChar(s[p])
    IN  before # after

\* re.search(rf'\b{i}-', s) finds a match.
ReSearch(i, s) ==
    \E p \in 1..Len(s) : WordBoundary(s, p) /\ LiteralAt(s, p, PatternLiteral(i))

Str_img_101 == <<"i", "m", "g", "_", "1", "0", "1", "-", "s", "a", "m", "p", "l", "e", ".", "j", "p", "g">>
Str_plot_3 == <<"p", "l", "o", "t", "_", "3", "-", "l", "e", "f", "t", "c", "a", "m", ".", "j", "p", "g">>
Str_21_plot == <<"2", "1", "-", "p", "l", "o", "t", ".", "j", "p", "g">>
Str_101_a == <<"1", "0", "1", "-", "a", ".", "j", "p", "g">>
Str_a_3 == <<"a", " ", "3", "-", "b">>

\* Characters of the enumerated names: digits, a letter, the underscore and
\* non-word characters.
NameChars == {"0", "1", "-", "_", "a", "."}

MatcherNames ==
    SeqsUpTo(NameChars, MaxNameLen)
        \cup {Str_img_101, Str_plot_3, Str_21_plot, Str_101_a, Str_a_3}

InitMatcherIdle ==
    /\ image_name = <<>>
    /\ candidate = 0
    /\ matched = FALSE

\* One evaluation of line 65 for candidate i.
Search(i) ==
    /\ candidate' = i
    /\ matched' = ReSearch(i, image_name)
    /\ UNCHANGED image_name

-----------------------------------------------------------------------------
(* DataFrames: the column labels in order, the index labels in order, and  *)
(* one function from column label to cell per row.                         *)

\* The cell without a value: None in stage 1, NaN after the Excel round trip.
None == -1

EmptyFrame == [columns |-> <<>>, index |-> <<>>, rows |-> <<>>]

\* index=False on write and the default RangeIndex on read: the rows in
\* order, labelled 0 .. n-1, None cells read back as NaN.
ReadBack(df) ==
    [columns |-> df.columns,
     index   |-> [k \in 1..Len(df.rows) |-> k - 1],
     rows    |-> df.rows]

\* df.drop(columns=names)
DropColumns(df, names) ==
    [columns |-> SelectSeq(df.columns, LAMBDA c : c \notin names),
     index   |-> df.index,
     rows    |-> [k \in 1..Len(df.rows) |->
                    [c \in (DOMAIN df.rows[k]) \ names |-> df.rows[k][c]]]]

\* The rows at the positions pos, with their index labels.
TakeRows(df, pos) ==
    [columns |-> df.columns,
     index   |-> [j \in 1..Len(pos) |-> df.index[pos[j]]],
     rows    |-> [j \in 1..Len(pos) |-> df.rows[pos[j]]]]

\* The row positions of a table, ascending.
Positions(df) == [k \in 1..Len(df.rows) |-> k]

\* The cells of one column, top to bottom.
ColumnCells(df, c) == [k \in 1..Len(df.rows) |-> df.rows[k][c]]

\* series.dropna(): the cells that hold a value, in order.
DropNa(cells) == SelectSeq(cells, LAMBDA v : v # None)

-----------------------------------------------------------------------------
(* Stage 1: Plot Reshaper *)

PlotLabels == <<"1-", "2-", "3-", "4-", "5-">>

\* f'{i}-' as a column label.
PlotLabel(i) == PlotLabels[i]

\* plot_columns = [f'{i}-' for i in range(1, range_max + 1)]
PlotColumns(rmax) == [i \in 1..rmax |-> PlotLabel(i)]

\* df[df['Area'] != 0]
AreaFilter(df) ==
    TakeRows(df, SelectSeq(Positions(df), LAMBDA k : df.rows[k]["Area"] # 0))

\* df_reshaped[col] = None for every plot column.
AddPlotColumns(df, rmax) ==
    [columns |-> df.columns \o PlotColumns(rmax),
     index   |-> df.index,
     rows    |-> [k \in 1..Len(df.rows) |->
                    [c \in (DOMAIN df.rows[k]) \cup Range(PlotColumns(rmax)) |->
                        IF c \in Range(PlotColumns(rmax)) THEN None
                        ELSE df.rows[k][c]]]]

\* str(row.get('Image Name', ''))
ImageNameOf(row) ==
    IF "Image Name" \in DOMAIN row THEN row["Image Name"] ELSE <<>>

RECURSIVE ScanAll(_, _, _)
\* The loop without its break: the last matching candidate wins.
ScanAll(name, i, rmax) ==
    IF i > rmax THEN 0
    ELSE LET later == ScanAll(name, i + 1, rmax)
         IN  IF later # 0 THEN later
             ELSE IF ReSearch(i, name) THEN i ELSE 0

RECURSIVE ScanFrom(_, _, _)
\* for i in range(i, range_max + 1): the first i whose pattern is found
\* (then break), 0 when the loop ends without a match.
ScanFrom(name, i, rmax) ==
    IF i > rmax THEN 0
    ELSE IF ReSearch(i, name) THEN i
    ELSE ScanFrom(name, i + 1, rmax)

\* The body of the iterrows loop for one row.
MatchRow(row, rmax) ==
    LET i == ScanFrom(ImageNameOf(row), 1, rmax)
    IN  IF i = 0 THEN row ELSE [row EXCEPT ![PlotLabel(i)] = row["Area"]]

\* Lines 40-67 on a DataFrame that has an Area column.
Reshape(df, rmax) ==
    LET dropped  == IF "Mask Name" \in Range(df.columns)
                    THEN DropColumns(df, {"Mask Name"}) ELSE df
        filtered == AreaFilter(dropped)
        wide     == AddPlotColumns(filtered, rmax)
    IN  [wide EXCEPT !.rows = [k \in 1..Len(wide.rows) |-> MatchRow(wide.rows[k], rmax)]]

-----------------------------------------------------------------------------
(* Stage 2: Column Compactor *)

\* df.dropna(how='all'): the rows with a value in some column keep their
\* index labels.
DropNaAll(df) ==
    TakeRows(df, SelectSeq(Positions(df),
                 LAMBDA k : \E c \in DOMAIN df.rows[k] : df.rows[k][c] # None))

\* df[column] = df[column].dropna().reset_index(drop=True): the right-hand
\* side is labelled 0 .. n-1 and the assignment aligns it on df's index: the
\* row labelled L receives the value labelled L, NaN when there is none.
AssignCompacted(df, column) ==
    LET dense == DropNa(ColumnCells(df, column))
    IN  [df EXCEPT !.rows = [k \in 1..Len(df.rows) |->
            [df.rows[k] EXCEPT ![column] =
                IF df.index[k] < Len(dense) THEN dense[df.index[k] + 1] ELSE None]]]

RECURSIVE CompactFrom(_, _)
\* for column in df_cleaned.columns, from the j-th column on.
CompactFrom(df, j) ==
    IF j > Len(df.columns) THEN df
    ELSE CompactFrom(AssignCompacted(df, df.columns[j]), j + 1)

\* Lines 80-92.
Clean(reshaped) ==
    LET df_step2 == DropColumns(ReadBack(reshaped),
                        {"Image Name", "Area"} \cap Range(reshaped.columns))
    IN  CompactFrom(DropNaAll(df_step2), 1)

-----------------------------------------------------------------------------
(* float64 in fixed point *)

\* One unit is 1/Scale; a multiple of 8, so that quartiles of integers and
\* 1.5 * IQR are exact.
Scale == 8 * 125

NaN == [nan |-> TRUE, v |-> 0]

Num(x) == [nan |-> FALSE, v |-> x]

\* a != b on floats: nan differs from everything, itself included.
FloatNe(a, b) == a.nan \/ b.nan \/ a.v # b.v

\* a / b, b not zero.
FloatDiv(a, b) ==
    IF a.nan \/ b.nan THEN NaN ELSE Num((a.v * Scale) \div b.v)

\* a - b
FloatSub(a, b) == IF a.nan \/ b.nan THEN NaN ELSE Num(a.v - b.v)

\* a * k for an integer k
FloatTimes(a, k) == IF a.nan THEN NaN ELSE Num(a.v * k)

RECURSIVE ISqrtBetween(_, _, _)
\* The r with lo <= r < hi and r*r <= n < (r+1)*(r+1).
ISqrtBetween(n, lo, hi) ==
    IF hi - lo <= 1 THEN lo
    ELSE LET mid == (lo + hi) \div 2
         IN  IF mid * mid <= n THEN ISqrtBetween(n, mid, hi)
             ELSE ISqrtBetween(n, lo, mid)

\* The integer square root of n >= 0.
ISqrt(n) == ISqrtBetween(n, 0, IF n < 46340 THEN n + 1 ELSE 46341)

\* ln(k) in units of 1/Scale, k in 1..8.
LnFixed == <<0, 693, 1099, 1386, 1609, 1792, 1946, 2079>>

-----------------------------------------------------------------------------
(* Stage 3: Statistics Engine *)

\* series.quantile(quarter / 4), linear interpolation, in units of 1/Scale.
Quantile(series, quarter) ==
    LET sorted == SortValues(series)
        h4     == (Len(series) - 1) * quarter
        lo     == (h4 \div 4) + 1
        frac   == h4 % 4
    IN  IF frac = 0 THEN sorted[lo] * Scale
        ELSE sorted[lo] * Scale + (frac * (sorted[lo + 1] - sorted[lo]) * Scale) \div 4

\* A filter that keeps everything.
IQRFilterOff(series) == series

\* A filter with open fences: a value on a fence is excluded.
IQRFilterStrict(series) ==
    LET Q1  == Quantile(series, 1)
        Q3  == Quantile(series, 3)
        IQR == Q3 - Q1
    IN  SelectSeq(series, LAMBDA v :
            /\ v * Scale > Q1 - (3 * IQR) \div 2
            /\ v * Scale < Q3 + (3 * IQR) \div 2)

\* Lines 115-119.
IQRFilter(series) ==
    LET Q1  == Quantile(series, 1)
        Q3  == Quantile(series, 3)
        IQR == Q3 - Q1
    IN  SelectSeq(series, LAMBDA v :
            /\ v * Scale >= Q1 - (3 * IQR) \div 2
            /\ v * Scale <= Q3 + (3 * IQR) \div 2)

\* Lines 114-122.
Filtered(series, iqr) == IF iqr THEN IQRFilter(series) ELSE series

\* filtered.mean()
Mean(series) == Num((SumSeq(series) * Scale) \div Len(series))

\* filtered.std(): the sample standard deviation, nan for fewer than two
\* values.
Std(series) ==
    LET n     == Len(series)
        sum   == SumSeq(series)
        sumsq == SumSeq([k \in 1..n |-> series[k] * series[k]])
    IN  IF n < 2 THEN NaN
        ELSE Num(ISqrt(((n * sumsq - sum * sum) * Scale * Scale) \div (n * (n - 1))))

\* A coefficient of variation that is also nan when there is no spread.
CVNanWithoutSpread(std_val, mean_val) ==
    IF FloatNe(mean_val, Num(0)) /\ FloatNe(std_val, Num(0))
    THEN FloatTimes(FloatDiv(std_val, mean_val), 100)
    ELSE NaN

\* (std_val / mean_val * 100) if mean_val != 0 else np.nan
CV(std_val, mean_val) ==
    IF FloatNe(mean_val, Num(0)) THEN FloatTimes(FloatDiv(std_val, mean_val), 100)
    ELSE NaN

\* filtered.value_counts(): the number of occurrences of each distinct value.
ValueCounts(series) ==
    [v \in Range(series) |-> Cardinality({k \in 1..Len(series) : series[k] = v})]

RECURSIVE SumPLogP(_, _, _)
\* The sum over the values v in S of c * (ln n - ln c), c the count of v:
\* n times the sum of -p * ln p for p = c / n.
SumPLogP(counts, n, S) ==
    IF S = {} THEN 0
    ELSE LET v == CHOOSE x \in S : TRUE
         IN  counts[v] * (LnFixed[n] - LnFixed[counts[v]])
             + SumPLogP(counts, n, S \ {v})

\* entropy(filtered.value_counts(normalize=True)): the Shannon entropy
\* (natural logarithm) of the relative frequencies.
Entropy(series) ==
    LET counts == ValueCounts(series)
        n      == Len(series)
    IN  Num(SumPLogP(counts, n, DOMAIN counts) \div n)

StatColumns == <<"Plot ID", "Count", "Mean", "Std Dev", "CV (%)", "Entropy">>

\* The dict appended at lines 143-150.
Record(column, filtered) ==
    ("Plot ID" :> column) @@
    ("Count"   :> Len(filtered)) @@
    ("Mean"    :> Mean(filtered)) @@
    ("Std Dev" :> Std(filtered)) @@
    ("CV (%)"  :> CV(Std(filtered), Mean(filtered))) @@
    ("Entropy" :> Entropy(filtered))

\* series = df_cleaned[column].dropna()
SeriesRead(df, column) == DropNa(ColumnCells(df, column))

RECURSIVE StatsFromPrepending(_, _, _)
\* The loop with each record put in front of the earlier ones.
StatsFromPrepending(df, j, iqr) ==
    IF j > Len(df.columns) THEN <<>>
    ELSE LET column   == df.columns[j]
             series   == SeriesRead(df, column)
             filtered == Filtered(series, iqr)
             rest     == StatsFromPrepending(df, j + 1, iqr)
         IN  IF Len(series) = 0 THEN rest
             ELSE IF Len(filtered) = 0 THEN rest
             ELSE rest \o <<Record(column, filtered)>>

RECURSIVE StatsFrom(_, _, _)
\* Lines 106-150 from the j-th column on: the records appended.
StatsFrom(df, j, iqr) ==
    IF j > Len(df.columns) THEN <<>>
    ELSE LET column   == df.columns[j]
             series   == SeriesRead(df, column)
             filtered == Filtered(series, iqr)
             rest     == StatsFrom(df, j + 1, iqr)
         IN  IF Len(series) = 0 THEN rest
             ELSE IF Len(filtered) = 0 THEN rest
             ELSE <<Record(column, filtered)>> \o rest

\* pd.DataFrame(stats_results): the records in order (no columns at all
\* when there is no record).
Statistics(df, iqr) == StatsFrom(df, 1, iqr)

-----------------------------------------------------------------------------
(* Stage 4: Normalizer *)

norm_cols == <<"Std Dev", "CV (%)", "Entropy">>

\* The values of s that are not nan.
NotNaN(s) == SelectSeq(s, LAMBDA x : ~x.nan)

\* Series.min(): nan values are skipped; nan when nothing is left.
ColMin(s) ==
    LET vs == NotNaN(s)
    IN  IF vs = <<>> THEN NaN
        ELSE Num(CHOOSE m \in {x.v : x \in Range(vs)} :
                    \A x \in Range(vs) : m <= x.v)

\* Series.max()
ColMax(s) ==
    LET vs == NotNaN(s)
    IN  IF vs = <<>> THEN NaN
        ELSE Num(CHOOSE m \in {x.v : x \in Range(vs)} :
                    \A x \in Range(vs) : m >= x.v)

\* A rescaling that divides by the maximum instead of the range.
MinMaxByMax(v, min_val, max_val) == FloatDiv(FloatSub(v, min_val), max_val)

\* (v - min_val) / (max_val - min_val)
MinMax(v, min_val, max_val) ==
    FloatDiv(FloatSub(v, min_val), FloatSub(max_val, min_val))

\* Lines 166-176 for one column of a table of records.
NormalizeColumn(df, col) ==
    IF df = <<>> THEN df   \* col not in norm_df.columns
    ELSE LET values  == [k \in 1..Len(df) |-> df[k][col]]
             min_val == ColMin(values)
             max_val == ColMax(values)
         IN  IF FloatNe(min_val, max_val)
             THEN [k \in 1..Len(df) |->
                      [df[k] EXCEPT ![col] = MinMax(df[k][col], min_val, max_val)]]
             ELSE [k \in 1..Len(df) |-> [df[k] EXCEPT ![col] = Num(0)]]

RECURSIVE NormalizeFrom(_, _)
\* for col in norm_cols, from the j-th on.
NormalizeFrom(df, j) ==
    IF j > Len(norm_cols) THEN df
    ELSE NormalizeFrom(NormalizeColumn(df, norm_cols[j]), j + 1)

\* Lines 162-176.
Normalize(stats) == NormalizeFrom(stats, 1)

-----------------------------------------------------------------------------
(* The input file *)

Str_1 == <<"1", "-", "a">>
Str_2 == <<"2", "-", "a">>
Str_1_2 == <<"1", "-", "2", "-">>
Str_x == <<"x", ".", "j", "p", "g">>

\* Image names of the pipeline runs: plot 1, plot 2, both identifiers, none.
ImageNames == {Str_1, Str_2, Str_1_2, Str_x}

\* Areas of the pipeline runs.
Areas == {0, 3, 5}

StandardColumns == <<"Image Name", "Mask Name", "Area">>

\* Other column sets: no Mask Name, no Area, no Image Name.
OtherColumns == {<<"Image Name", "Area">>, <<"Image Name", "Mask Name">>,
                 <<"Mask Name", "Area">>}

\* Column sets with a numeric column besides the three the pipeline names,
\* with and without Mask Name.
ExtraColumns == {<<"Image Name", "Mask Name", "Area", "Perimeter">>,
                 <<"Image Name", "Area", "Perimeter">>}

InputRow(columns, m) ==
    [c \in Range(columns) |->
        CASE c = "Image Name" -> m[1]
          [] c = "Area"       -> m[2]
          [] c = "Mask Name"  -> "Mask_0"
          [] OTHER            -> 7]

\* The table pd.read_excel returns for a sheet with these columns and one row
\* per measurement.
InputFrame(columns, ms) ==
    [columns |-> columns,
     index   |-> [k \in 1..Len(ms) |-> k - 1],
     rows    |-> [k \in 1..Len(ms) |-> InputRow(columns, ms[k])]]

Readable(df) == [readable |-> TRUE, df |-> df]

Unreadable == [readable |-> FALSE, df |-> EmptyFrame]

Measurements(n) == SeqsUpTo(ImageNames \X Areas, n)

StandardFiles == {Readable(InputFrame(StandardColumns, ms)) : ms \in Measurements(MaxRows)}

FaultFiles ==
    {Unreadable} \cup
    {Readable(InputFrame(cols, ms)) :
        cols \in OtherColumns \cup {StandardColumns}, ms \in Measurements(MaxFaultRows)}

\* Files whose sheet has an additional column.
ExtraColumnFiles ==
    {Readable(InputFrame(cols, ms)) :
        cols \in ExtraColumns, ms \in Measurements(MaxFaultRows)}

-----------------------------------------------------------------------------
(* process_pipeline, step by step.  Each stage starts with its self.log    *)
(* call (lines 30, 50, 77, 101-102, 160, 181) and ends with its to_excel.  *)

LogSites == {"start", "stage1", "stage2", "stage3", "stage4", "finish"}

tables == <<df_reshaped, df_cleaned, stats_df, norm_df>>

params == <<input_mask_file, range_max, enable_iqr, log_callback, output_dir>>

InitPipelineIdle ==
    /\ pc = "idle"
    /\ result = "none"
    /\ input_mask_file = Unreadable
    /\ range_max = 0
    /\ enable_iqr = FALSE
    /\ log_callback = "print"
    /\ output_dir = "ok"
    /\ df_reshaped = EmptyFrame
    /\ df_cleaned = EmptyFrame
    /\ stats_df = <<>>
    /\ norm_df = <<>>
    /\ artifacts = <<>>
    /\ log_raised = FALSE
    /\ io_failed = FALSE

\* The state on entry to process_pipeline.
Init ==
    /\ pc = "start"
    /\ result = "none"
    /\ range_max = RangeMax
    /\ enable_iqr \in BOOLEAN
    /\ \/ /\ log_callback = "print"
          /\ output_dir = "ok"
          /\ input_mask_file \in StandardFiles \cup ExtraColumnFiles
       \/ /\ log_callback \in {"print", "raising"}
          /\ output_dir \in {"ok", "flaky"}
          /\ input_mask_file \in FaultFiles
    /\ df_reshaped = EmptyFrame
    /\ df_cleaned = EmptyFrame
    /\ stats_df = <<>>
    /\ norm_df = <<>>
    /\ artifacts = <<>>
    /\ log_raised = FALSE
    /\ io_failed = FALSE
    /\ InitMatcherIdle

\* A self.log call at the start of a stage raises: control passes to the
\* except clause of line 184.
LogRaises ==
    /\ pc \in LogSites
    /\ log_callback = "raising"
    /\ pc' = "except"
    /\ log_raised' = TRUE
    /\ UNCHANGED <<result, params, tables, artifacts, io_failed, matcher_vars>>

\* return False from a handler whose self.log call returns, or that call
\* raises inside the outer try.
LogThenReturnFalse ==
    \/ /\ pc' = "done"
       /\ result' = "False"
       /\ UNCHANGED log_raised
    \/ /\ log_callback = "raising"
       /\ pc' = "except"
       /\ log_raised' = TRUE
       /\ UNCHANGED result

\* Lines 33-37: pd.read_excel raises.
ReadFails ==
    /\ pc = "start"
    /\ ~input_mask_file.readable
    /\ LogThenReturnFalse
    /\ UNCHANGED <<params, tables, artifacts, io_failed, matcher_vars>>

\* Lines 44-48: there is no Area column.
AreaMissing ==
    /\ pc = "start"
    /\ input_mask_file.readable
    /\ "Area" \notin Range(input_mask_file.df.columns)
    /\ LogThenReturnFalse
    /\ UNCHANGED <<params, tables, artifacts, io_failed, matcher_vars>>

\* Lines 30-45 when the file is read and has an Area column.
ReadInput ==
    /\ pc = "start"
    /\ input_mask_file.readable
    /\ "Area" \in Range(input_mask_file.df.columns)
    /\ pc' = "stage1"
    /\ UNCHANGED <<result, params, tables, artifacts, log_raised, io_failed, matcher_vars>>

\* The four artifacts, in the order the code writes them.
ArtifactNames ==
    <<"1_reshaped_data", "2_cleaned_data", "3_statistical_analysis", "4_normalized_final">>

\* to_excel of the k-th artifact succeeds.
Written(k, next) ==
    /\ artifacts' = Append(artifacts, ArtifactNames[k])
    /\ pc' = next
    /\ UNCHANGED <<result, params, log_raised, io_failed, matcher_vars>>

\* A read or a write of the stage raises: the table is in memory, the file
\* is not written.
IoRaises ==
    /\ output_dir = "flaky"
    /\ pc' = "except"
    /\ io_failed' = TRUE
    /\ UNCHANGED <<result, params, artifacts, log_raised, matcher_vars>>

\* Lines 50-71.
Stage1 ==
    /\ pc = "stage1"
    /\ df_reshaped' = Reshape(input_mask_file.df, range_max)
    /\ UNCHANGED <<df_cleaned, stats_df, norm_df>>
    /\ Written(1, "stage2")

\* Lines 77-95.
Stage2 ==
    /\ pc = "stage2"
    /\ df_cleaned' = Clean(df_reshaped)
    /\ UNCHANGED <<df_reshaped, stats_df, norm_df>>
    /\ Written(2, "stage3")

\* Lines 101-154.
Stage3 ==
    /\ pc = "stage3"
    /\ stats_df' = Statistics(df_cleaned, enable_iqr)
    /\ UNCHANGED <<df_reshaped, df_cleaned, norm_df>>
    /\ Written(3, "stage4")

\* Lines 160-179.
Stage4 ==
    /\ pc = "stage4"
    /\ norm_df' = Normalize(stats_df)
    /\ UNCHANGED <<df_reshaped, df_cleaned, stats_df>>
    /\ Written(4, "finish")

\* to_excel (or the read_excel of line 80) raises in one of the stages.
StageIoFails ==
    /\ \/ pc = "stage1" /\ df_reshaped' = Reshape(input_mask_file.df, range_max)
                        /\ UNCHANGED <<df_cleaned, stats_df, norm_df>>
       \/ pc = "stage2" /\ UNCHANGED tables
       \/ pc = "stage3" /\ stats_df' = Statistics(df_cleaned, enable_iqr)
                        /\ UNCHANGED <<df_reshaped, df_cleaned, norm_df>>
       \/ pc = "stage4" /\ norm_df' = Normalize(stats_df)
                        /\ UNCHANGED <<df_reshaped, df_cleaned, stats_df>>
    /\ IoRaises

\* Lines 181-182.
Finish ==
    /\ pc = "finish"
    /\ pc' = "done"
    /\ result' = "True"
    /\ UNCHANGED <<params, tables, artifacts, log_raised, io_failed, matcher_vars>>

\* Lines 184-187: the handler logs the traceback and returns False; when
\* this self.log call raises, the exception leaves process_pipeline.
Except ==
    /\ pc = "except"
    /\ pc' = "done"
    /\ \/ result' = "False" /\ UNCHANGED log_raised
       \/ log_callback = "raising" /\ result' = "raised" /\ log_raised' = TRUE
    /\ UNCHANGED <<params, tables, artifacts, io_failed, matcher_vars>>

Next ==
    \/ LogRaises
    \/ ReadFails
    \/ AreaMissing
    \/ ReadInput
    \/ Stage1
    \/ Stage2
    \/ Stage3
    \/ Stage4
    \/ StageIoFails
    \/ Finish
    \/ Except

Spec == Init /\ [][Next]_vars

-----------------------------------------------------------------------------
(* The Identifier Matcher alone: one re.search per run, over every short   *)
(* name and every candidate.                                               *)

InitMatch ==
    /\ InitPipelineIdle
    /\ image_name \in MatcherNames
    /\ candidate = 0
    /\ matched = FALSE

NextMatch ==
    /\ candidate = 0
    /\ \E i \in 1..MatchRangeMax : Search(i)
    /\ UNCHANGED pipeline_vars

SpecMatch == InitMatch /\ [][NextMatch]_vars

-----------------------------------------------------------------------------
(* Stages 3 and 4 alone: the run is picked up at line 101 with df_cleaned  *)
(* holding two PlotSeries.                                                 *)

\* Areas of the PlotSeries.
SeriesAreas == {1, 2, 5}

\* The PlotSeries of the second column.
SecondSeries == {<<>>, <<2>>, <<2, 2>>, <<1, 5>>, <<1, 2, 5>>}

Max(a, b) == IF a >= b THEN a ELSE b

\* The compacted table that holds s1 in column 1- and s2 in column 2-.
CleanedFrame(s1, s2) ==
    LET n == Max(Len(s1), Len(s2))
        Cell(s, k) == IF k <= Len(s) THEN s[k] ELSE None
    IN  [columns |-> PlotColumns(2),
         index   |-> [k \in 1..n |-> k - 1],
         rows    |-> [k \in 1..n |->
                        (PlotLabel(1) :> Cell(s1, k)) @@ (PlotLabel(2) :> Cell(s2, k))]]

InitEngine ==
    /\ pc = "stage3"
    /\ result = "none"
    /\ input_mask_file = Readable(EmptyFrame)
    /\ range_max = 2
    /\ enable_iqr \in BOOLEAN
    /\ log_callback = "print"
    /\ output_dir = "ok"
    /\ df_reshaped = EmptyFrame
    /\ \E s1 \in SeqsUpTo(SeriesAreas, MaxSeries), s2 \in SecondSeries :
          df_cleaned = CleanedFrame(s1, s2)
    /\ stats_df = <<>>
    /\ norm_df = <<>>
    /\ artifacts = SubSeq(ArtifactNames, 1, 2)
    /\ log_raised = FALSE
    /\ io_failed = FALSE
    /\ InitMatcherIdle

NextEngine == Stage3 \/ Stage4 \/ Finish

SpecEngine == InitEngine /\ [][NextEngine]_vars

-----------------------------------------------------------------------------
(* Properties *)

\* The k-th stage has written its artifact.
StageDone(k) == Len(artifacts) >= k

\* The populated values of a PlotID column of the stage 1 table, in row order.
Populated(j) == DropNa(ColumnCells(df_reshaped, PlotLabel(j)))

\* The PlotSeries stage 3 reads for plot j (line 108).
PlotSeries(j) == SeriesRead(df_cleaned, PlotLabel(j))

\* C1: after stage 2, for every PlotID column, the PlotSeries the Statistics
\* Engine reads is exactly the sequence of the column's populated values of
\* the stage 1 table, in their original row order.
C1_CompactionLossless ==
    StageDone(2) => \A j \in 1..range_max : PlotSeries(j) = Populated(j)

\* The claimed matcher: the literal "<i>-" occurs at a position whose
\* preceding character is absent or not a digit.
ClaimedMatch(i, s) ==
    \E p \in 1..Len(s) :
        /\ LiteralAt(s, p, PatternLiteral(i))
        /\ (p = 1 \/ ~IsDigit(s[p - 1]))

\* C2: candidate i matches an image name if and only if the name contains
\* "<i>-" preceded by nothing or by a non-digit.
C2_WordBoundarySafe ==
    candidate # 0 => (matched <=> ClaimedMatch(candidate, image_name))

\* The candidates in 1..range_max whose pattern the image name of an input
\* row matches.
Matching(row) == {i \in 1..range_max : ReSearch(i, ImageNameOf(row))}

Minimum(S) == CHOOSE m \in S : \A x \in S : m <= x

\* The positions of the input rows whose Area is not 0, ascending.
Retained ==
    LET rows == input_mask_file.df.rows
    IN  SelectSeq([k \in 1..Len(rows) |-> k], LAMBDA k : rows[k]["Area"] # 0)

\* C3: the stage 1 table holds every input row with Area # 0 exactly once, in
\* order, and no other row; a row with matching candidates M has its area in
\* column min(M) and every other PlotID column unset; a row with no matching
\* candidate has every PlotID column unset.
C3_AtMostOnePlot ==
    StageDone(1) =>
        /\ Len(df_reshaped.rows) = Len(Retained)
        /\ \A n \in 1..Len(Retained) :
              LET src == input_mask_file.df.rows[Retained[n]]
                  out == df_reshaped.rows[n]
                  M   == Matching(src)
              IN  /\ out["Area"] = src["Area"]
                  /\ ImageNameOf(out) = ImageNameOf(src)
                  /\ \A j \in 1..range_max :
                        out[PlotLabel(j)] =
                            IF M # {} /\ j = Minimum(M) THEN src["Area"] ELSE None

\* C3's case: a name that matches two candidates lands in the lower one,
\* beside an unmatched row, and a row with Area 0 is gone.
C3_Witness ==
    /\ StageDone(1)
    /\ Len(df_reshaped.rows) < Len(input_mask_file.df.rows)
    /\ \E k \in 1..Len(df_reshaped.rows) :
          /\ Cardinality(Matching(df_reshaped.rows[k])) = 2
          /\ df_reshaped.rows[k][PlotLabel(1)] = df_reshaped.rows[k]["Area"]
    /\ \E k \in 1..Len(df_reshaped.rows) : Matching(df_reshaped.rows[k]) = {}

\* Four times series.quantile(quarter / 4) by linear interpolation between
\* the order statistics around position (n - 1) * quarter / 4.
Quartile4(series, quarter) ==
    LET sorted == SortValues(series)
        h4     == (Len(series) - 1) * quarter
        below  == sorted[(h4 \div 4) + 1]
        above  == sorted[IF h4 % 4 = 0 THEN (h4 \div 4) + 1 ELSE (h4 \div 4) + 2]
    IN  4 * below + (h4 % 4) * (above - below)

\* v lies within [Q1 - 1.5 * IQR, Q3 + 1.5 * IQR] of the series (both sides
\* of each comparison times 8).
WithinFences(series, v) ==
    LET Q1 == Quartile4(series, 1)
        Q3 == Quartile4(series, 3)
    IN  /\ 8 * v >= 2 * Q1 - 3 * (Q3 - Q1)
        /\ 8 * v <= 2 * Q3 + 3 * (Q3 - Q1)

\* The values the configured filtering policy retains.
RetainedSeries(series) ==
    IF enable_iqr THEN SelectSeq(series, LAMBDA v : WithinFences(series, v))
    ELSE series

\* The Plot IDs of the statistics table, in order.
RecordIds == [k \in 1..Len(stats_df) |-> stats_df[k]["Plot ID"]]

\* The number i of the label f'{i}-'.
PlotNumber(id) == CHOOSE i \in 1..Len(PlotLabels) : PlotLabels[i] = id

\* No PlotID column of the stage 1 table holds a value.
NoPlotHasValue == \A j \in 1..range_max : Populated(j) = <<>>

\* C4: the statistics table holds exactly one record for each plot whose
\* PlotSeries is non-empty after the filtering policy and none for any other
\* plot, in ascending PlotID order; when no plot has any value the table is
\* empty and a run without a raising callback or a failing write succeeds.
C4_OneRecordPerPlot ==
    StageDone(3) =>
        /\ \A j \in 1..range_max :
              Cardinality({k \in 1..Len(stats_df) : RecordIds[k] = PlotLabel(j)})
                  = IF RetainedSeries(PlotSeries(j)) # <<>> THEN 1 ELSE 0
        /\ \A k \in 1..Len(stats_df) : RecordIds[k] \in Range(PlotColumns(range_max))
        /\ \A k1, k2 \in 1..Len(stats_df) :
              k1 < k2 => PlotNumber(RecordIds[k1]) < PlotNumber(RecordIds[k2])
        /\ NoPlotHasValue =>
              /\ stats_df = <<>>
              /\ (pc = "done" /\ ~log_raised /\ ~io_failed) =>
                    (result = "True" /\ Len(artifacts) = 4)

\* C4's case: one plot without a value and one with values, which alone has
\* a record.
C4_Witness ==
    /\ StageDone(3)
    /\ PlotSeries(1) = <<>>
    /\ Len(PlotSeries(2)) = 2
    /\ RecordIds = <<PlotLabel(2)>>

\* C4's other cases: two records in ascending order, and the empty table of
\* a run that succeeds.
C4_WitnessOrder == StageDone(3) /\ RecordIds = <<PlotLabel(1), PlotLabel(2)>>

C4_WitnessEmpty ==
    /\ pc = "done"
    /\ result = "True"
    /\ Len(input_mask_file.df.rows) > 1
    /\ stats_df = <<>>

\* Every row of a table holds the same value in column col.
Constant(df, col) == \A k \in 1..Len(df) : df[k][col] = df[1][col]

\* C5: a target column in which all rows of the statistics table share one
\* value (nan included, single-row tables included) is 0 in every row of the
\* normalized table.
C5_DegenerateIsZero ==
    StageDone(4) =>
        \A n \in 1..Len(norm_cols) :
            Constant(stats_df, norm_cols[n]) =>
                \A k \in 1..Len(norm_df) : norm_df[k][norm_cols[n]] = Num(0)

\* The values of a column that are not nan.
Numbers(df, col) == {df[k][col].v : k \in {i \in 1..Len(df) : ~df[i][col].nan}}

Maximum(S) == CHOOSE m \in S : \A x \in S : m >= x

\* C6: the normalized table has the rows of the statistics table in the same
\* order with Plot ID, Count and Mean unchanged; in a target column whose
\* minimum differs from its maximum every value v becomes
\* (v - min) / (max - min), which lies in [0, 1], is 0 for the minimum and 1
\* for the maximum; nan stays nan.
C6_MinMax ==
    StageDone(4) =>
        /\ Len(norm_df) = Len(stats_df)
        /\ \A k \in 1..Len(stats_df) :
              /\ norm_df[k]["Plot ID"] = stats_df[k]["Plot ID"]
              /\ norm_df[k]["Count"] = stats_df[k]["Count"]
              /\ norm_df[k]["Mean"] = stats_df[k]["Mean"]
        /\ \A n \in 1..Len(norm_cols) :
              LET col == norm_cols[n]
                  V   == Numbers(stats_df, col)
              IN  (V # {} /\ Minimum(V) # Maximum(V)) =>
                    \A k \in 1..Len(stats_df) :
                        LET v == stats_df[k][col]
                            w == norm_df[k][col]
                        IN  IF v.nan THEN w.nan
                            ELSE /\ ~w.nan
                                 /\ w.v = ((v.v - Minimum(V)) * Scale)
                                             \div (Maximum(V) - Minimum(V))
                                 /\ 0 <= w.v /\ w.v <= Scale
                                 /\ v.v = Minimum(V) => w.v = 0
                                 /\ v.v = Maximum(V) => w.v = Scale

\* C6's case: two rows with different standard deviations become 0.0 and 1.0.
C6_Witness ==
    /\ StageDone(4)
    /\ Len(stats_df) = 2
    /\ ~stats_df[1]["Std Dev"].nan /\ ~stats_df[2]["Std Dev"].nan
    /\ stats_df[1]["Std Dev"].v < stats_df[2]["Std Dev"].v
    /\ norm_df[1]["Std Dev"] = Num(0)
    /\ norm_df[2]["Std Dev"] = Num(Scale)

\* The record of plot j.
HasRecord(j) == \E k \in 1..Len(stats_df) : RecordIds[k] = PlotLabel(j)

RecordOf(j) == stats_df[CHOOSE k \in 1..Len(stats_df) : RecordIds[k] = PlotLabel(j)]

\* C7: with enable_iqr the retained series of a plot is exactly its values
\* within [Q1 - 1.5 * IQR, Q3 + 1.5 * IQR], without it the PlotSeries
\* unchanged; Count is the number of retained values, Mean (and the rest of
\* the record) is computed over them only, and Count is below the length of
\* the raw series when a value lies beyond Q3 + 1.5 * IQR.
C7_OutlierPolicy ==
    StageDone(3) =>
        \A j \in 1..range_max :
            LET series   == PlotSeries(j)
                retained == RetainedSeries(series)
            IN  /\ ~enable_iqr => retained = series
                /\ retained # <<>> =>
                      /\ HasRecord(j)
                      /\ RecordOf(j)["Count"] = Len(retained)
                      /\ RecordOf(j)["Mean"] =
                            Num((SumSeq(retained) * Scale) \div Len(retained))
                      /\ RecordOf(j) = Record(PlotLabel(j), retained)
                /\ (enable_iqr /\ \E k \in 1..Len(series) : ~WithinFences(series, series[k])) =>
                      /\ HasRecord(j)
                      /\ RecordOf(j)["Count"] < Len(series)

\* C7's case: the outlier 5 of [1, 1, 1, 5] is excluded.
C7_Witness ==
    /\ StageDone(3)
    /\ enable_iqr
    /\ PlotSeries(1) = <<1, 1, 1, 5>>
    /\ RecordOf(1)["Count"] = 3
    /\ RecordOf(1)["Mean"] = Num(Scale)

\* n >= 2 identical values.
Identical(series) ==
    /\ Len(series) >= 2
    /\ \A k \in 1..Len(series) : series[k] = series[1]

\* C8 as stated: with the filter off, n >= 2 identical non-zero values v
\* yield count = n, mean = v, std_dev = 0, cv_percent = nan, entropy = 0.
C8_IdenticalValuesCvNan ==
    (StageDone(3) /\ ~enable_iqr) =>
        \A j \in 1..range_max :
            Identical(PlotSeries(j)) =>
                /\ HasRecord(j)
                /\ RecordOf(j)["Count"] = Len(PlotSeries(j))
                /\ RecordOf(j)["Mean"] = Num(PlotSeries(j)[1] * Scale)
                /\ RecordOf(j)["Std Dev"] = Num(0)
                /\ RecordOf(j)["CV (%)"] = NaN
                /\ RecordOf(j)["Entropy"] = Num(0)

\* C8 amended: with the filter off, n >= 2 identical non-zero values v yield
\* count = n, mean = v, std_dev = 0, cv_percent = 0, entropy = 0.
C8_IdenticalValues ==
    (StageDone(3) /\ ~enable_iqr) =>
        \A j \in 1..range_max :
            Identical(PlotSeries(j)) =>
                /\ HasRecord(j)
                /\ RecordOf(j)["Count"] = Len(PlotSeries(j))
                /\ RecordOf(j)["Mean"] = Num(PlotSeries(j)[1] * Scale)
                /\ RecordOf(j)["Std Dev"] = Num(0)
                /\ RecordOf(j)["CV (%)"] = Num(0)
                /\ RecordOf(j)["Entropy"] = Num(0)

\* C8's case: the record of [5, 5, 5] with the filter off.
C8_Witness ==
    /\ StageDone(3)
    /\ ~enable_iqr
    /\ PlotSeries(1) = <<5, 5, 5>>
    /\ RecordOf(1)["Count"] = 3
    /\ RecordOf(1)["CV (%)"] = Num(0)

\* The input can be read and has an Area column.
InputUsable ==
    /\ input_mask_file.readable
    /\ "Area" \in Range(input_mask_file.df.columns)

\* C9: the outcome does not depend on the callback: the call never ends with
\* the callback's exception, and it returns what the input and the disk
\* decide, success with all four artifacts when the input is usable and no
\* read or write fails.
C9_CallbackNeverAffects ==
    pc = "done" =>
        /\ result # "raised"
        /\ result = (IF InputUsable /\ ~io_failed THEN "True" ELSE "False")
        /\ (InputUsable /\ ~io_failed) => Len(artifacts) = 4

\* The artifacts written so far are the first ones of the four, in order.
ArtifactsInOrder == artifacts = SubSeq(ArtifactNames, 1, Len(artifacts))

\* C10: the artifacts written so far are a prefix of the four; an unreadable
\* input or a missing Area column returns failure with no artifact; a failure
\* in a later stage returns failure with the earlier artifacts in place;
\* success is returned only after all four.
C10_StageOrdering ==
    /\ ArtifactsInOrder
    /\ (pc = "done" /\ ~InputUsable) => (result = "False" /\ artifacts = <<>>)
    /\ (pc = "done" /\ (io_failed \/ log_raised)) => result = "False"
    /\ result = "True" => Len(artifacts) = 4

\* What holds of the artifacts in every run, raising callback included: they
\* are written in order, none for an unusable input, all four before success,
\* and no run with a failure reports success.
ArtifactOrdering ==
    /\ ArtifactsInOrder
    /\ (pc = "done" /\ ~InputUsable) => (result # "True" /\ artifacts = <<>>)
    /\ (pc = "done" /\ (io_failed \/ log_raised)) => result # "True"
    /\ result = "True" => Len(artifacts) = 4

\* The Plot IDs stage 3 gives for the table it read when the switch is iqr.
PlotIdsWith(iqr) ==
    LET stats == Statistics(df_cleaned, iqr)
    IN  {stats[k]["Plot ID"] : k \in 1..Len(stats)}

\* C11: the IQR filter never empties a series: every non-empty PlotSeries
\* has a value within [Q1 - 1.5 * IQR, Q3 + 1.5 * IQR], so the filtered
\* series of line 119 is never empty when the series of line 108 is not (the
\* continue of line 121 is not taken), every plot with a value has a record,
\* and the Plot IDs of the statistics table are the same with enable_iqr
\* true as with enable_iqr false.
C11_FilterNeverEmpties ==
    StageDone(3) =>
        /\ \A j \in 1..range_max :
              LET series == PlotSeries(j)
              IN  series # <<>> =>
                    /\ \E k \in 1..Len(series) : WithinFences(series, series[k])
                    /\ IQRFilter(series) # <<>>
                    /\ Filtered(series, enable_iqr) # <<>>
                    /\ HasRecord(j)
        /\ PlotIdsWith(TRUE) = PlotIdsWith(FALSE)
        /\ Range(RecordIds) = PlotIdsWith(~enable_iqr)

\* C11's case: the filter is on, it excludes the outlier of [1, 1, 1, 5] and
\* keeps [2, 2], whose fences both equal 2; both plots have their record.
C11_Witness ==
    /\ StageDone(3)
    /\ enable_iqr
    /\ PlotSeries(1) = <<1, 1, 1, 5>>
    /\ PlotSeries(2) = <<2, 2>>
    /\ IQRFilter(PlotSeries(1)) = <<1, 1, 1>>
    /\ RecordIds = <<PlotLabel(1), PlotLabel(2)>>
    /\ RecordOf(2)["Count"] = 2

\* The columns of the compacted table that are not PlotID columns.
NonPlotColumns ==
    {c \in Range(df_cleaned.columns) : c \notin Range(PlotColumns(range_max))}

\* The input table has at least the columns Image Name and Area.
HasRequiredColumns ==
    /\ input_mask_file.readable
    /\ {"Image Name", "Area"} \subseteq Range(input_mask_file.df.columns)

\* C12: for every input table with at least the columns Image Name and Area
\* (with or without Mask Name, with any additional columns), each record's
\* Plot ID is one of the labels "1-" .. "<range_max>-", and the columns other
\* than the PlotID columns contribute no value to any record: the table is
\* the one stage 3 computes from the PlotID columns alone.
C12_RecordsBelongToPlots ==
    (StageDone(3) /\ HasRequiredColumns) =>
        /\ \A k \in 1..Len(stats_df) : RecordIds[k] \in Range(PlotColumns(range_max))
        /\ stats_df = Statistics(DropColumns(df_cleaned, NonPlotColumns), enable_iqr)

\* Both halves of C12 hold for the tables that have no column besides Image
\* Name, Mask Name and Area.
RecordsBelongToPlotsOfNamedColumns ==
    Range(input_mask_file.df.columns) \subseteq Range(StandardColumns)
        => C12_RecordsBelongToPlots

\* C4 holds for the tables that have no column besides Image Name, Mask Name
\* and Area.
OneRecordPerPlotOfNamedColumns ==
    Range(input_mask_file.df.columns) \subseteq Range(StandardColumns)
        => C4_OneRecordPerPlot

\* A run on a table with an additional column: the column has a record of
\* its own, which precedes the record of plot 1.
ExtraColumnHasRecord ==
    /\ StageDone(3)
    /\ HasRequiredColumns
    /\ RecordIds = <<"Perimeter", PlotLabel(1)>>
    /\ stats_df[1]["Mean"] = Num(7 * Scale)

====
